---------------------------- MODULE Spec2Model ----------------------------
(***************************************************************************)
(* Model of the Azure Blob Storage catalog provider                        *)
(* (AzureBlobStorageEntityProvider: connect, scheduled refresh, listing,   *)
(* full mutation) and of the Azure Blob Storage URL reader                 *)
(* (AzureBlobStorageUrlReader: readUrl, readTree), with parseUrl and the   *)
(* integration config reader (readAzureBlobStorageIntegrationConfig) as    *)
(* functions applied to bounded inputs.                                    *)
(*                                                                         *)
(* Strings that the code only concatenates are TLA+ strings.  URLs and     *)
(* object keys, which the code also splits, are sequences of one-character *)
(* strings; the origin of a URL ("https://<account>.<host>") is one        *)
(* element of such a sequence.                                             *)
(***************************************************************************)
EXTENDS Integers, Sequences, FiniteSets, TLC

(***************************************************************************)
(* Bounds of the model.                                                    *)
(***************************************************************************)
NumKeys == 2        \* object keys a container may hold (a prefix of KeyOrder)
PageSize == 1       \* objects the backend returns per listing page
MaxCycles == 2      \* refresh executions started, over all sources
MaxChanges == 1     \* modifications of containers and objects by other clients
MaxReads == 2       \* readUrl and readTree calls made
NumChunks == 2      \* chunks a download stream delivers
MaxPathLen == 7     \* characters of the URL paths the functions are applied to
MaxKeyLen == 3      \* characters of the object keys the functions are applied to
MixCycles == 1      \* refresh executions started while reads are made as well
MixReads == 1       \* readUrl and readTree calls made while refreshes run as well

(***************************************************************************)
(* Configuration: the provider configs (id, containerName) and the one     *)
(* integration every provider uses.                                        *)
(***************************************************************************)
Ids == {"a", "b"}

ContainerName(id) == IF id = "a" THEN <<"c">> ELSE <<"d">>

Containers == {ContainerName(id) : id \in Ids}

AccountOrigin == "https://acct.blob.core.windows.net"

\* The keys of a container in the order the backend lists them (lexicographic).
KeyOrder == << <<"a">>, <<"a", "/", "b">>, <<"b">>, <<"b", "/", "a">> >>

KeyIdx == 1..NumKeys

RECURSIVE SeqOfSet(_)
\* The key indexes of S in listing order.
SeqOfSet(S) ==
    IF S = {} THEN <<>>
    ELSE LET m == CHOOSE x \in S : \A y \in S : x <= y
         IN <<m>> \o SeqOfSet(S \ {m})

(***************************************************************************)
(* getProviderName and the task id of createScheduleFn.                    *)
(***************************************************************************)
ProviderName(id) == "azureBlobStorage-provider:" \o id

TaskIdShared(id) == "azureBlobStorage-provider:refresh"

TaskId(id) == ProviderName(id) \o ":refresh"

TaskIds == {TaskId(id) : id \in Ids}

Names == {ProviderName(id) : id \in Ids}


DirectId(id) == "direct:" \o id

DirectIds == {DirectId(id) : id \in Ids}

ExecIds == TaskIds \cup DirectIds

(***************************************************************************)
(* State.                                                                  *)
(*   hasKey      the integration config carries an accountKey              *)
(*   connection  per provider: the sink key of the bound connection, or    *)
(*               "none" (this.connection)                                  *)
(*   client      per provider: this.blobServiceClient is set               *)
(*   cpc         per provider: position of connect()                       *)
(*   tasks       the scheduler's registry: records [id, src] handed to     *)
(*               taskRunner.run                                            *)
(*   fnRes       per task id: how the last execution of fn settled         *)
(*   x           per execution (a task's fn, or a direct refresh() call):  *)
(*               position and locals of refresh()/listAllBlobKeys(); the   *)
(*               fields fresh, calls, lists, unbound, listFailed and out   *)
(*               record what happened in the execution: the container was  *)
(*               not modified since its listing began, applyMutation calls *)
(*               made, page requests made, it began with no connection     *)
(*               bound, a page request failed, how refresh() ended         *)
(*   store       per container: the objects it holds (indexes of KeyOrder) *)
(*   sink        per sink key: the entities the catalog holds              *)
(*   log         the error entries written to the logger                   *)
(*   dirty       history: the container changed since the listing of the   *)
(*               last published batch began (or nothing was published)     *)
(*   pubs        history: mutations the catalog applied, per sink key      *)
(*   cycles      history: executions started so far                        *)
(*   nChanges    history: modifications by other clients so far            *)
(***************************************************************************)
VARIABLES hasKey, connection, client, cpc, tasks, fnRes, x, store, sink, log,
          dirty, pubs, cycles, nChanges

pvars == <<hasKey, connection, client, cpc, tasks, fnRes, x, store, sink, log,
           dirty, pubs, cycles, nChanges>>

(***************************************************************************)
(* Reader state.                                                           *)
(*   ru       the readUrl call: position, arguments, locals, result        *)
(*   rt       the readTree call: position, arguments, locals, result       *)
(*   blobVer  per object key: its version; the version is its ETag and its *)
(*            time of last modification                                    *)
(*   cache    what the last successful readUrl returned: url, etag,        *)
(*            lastModifiedAt                                               *)
(*   reads    history: readUrl and readTree calls made                     *)
(***************************************************************************)
VARIABLES ru, rt, blobVer, cache, reads

rvars == <<ru, rt, blobVer, cache, reads>>

(***************************************************************************)
(* Function applications.                                                  *)
(*   fx       the last application of one of the pure functions (parseUrl, *)
(*            createObjectUrl then parseUrl, the relative path of a listed *)
(*            key, the integration config reader): its name, its input and *)
(*            what it returned or threw                                    *)
(***************************************************************************)
VARIABLE fx

vars == <<pvars, rvars, fx>>

\* The provider's state but its backend clients.
pvarsButClient == <<hasKey, connection, cpc, tasks, fnRes, x, store, sink, log,
                    dirty, pubs, cycles, nChanges>>

NoMutation == [type |-> "none"]

IdleExec == [src |-> "a", pc |-> "idle", keys |-> <<>>, marker |-> 0,
             more |-> FALSE, fresh |-> FALSE, calls |-> 0, lists |-> 0,
             mut |-> NoMutation, unbound |-> FALSE, listFailed |-> FALSE,
             out |-> "none"]

InitProvider ==
    /\ hasKey \in BOOLEAN
    /\ connection = [id \in Ids |-> "none"]
    /\ client = [id \in Ids |-> FALSE]
    /\ cpc = [id \in Ids |-> "new"]
    /\ tasks = {}
    /\ fnRes = [t \in TaskIds |-> "none"]
    /\ x = [e \in ExecIds |-> IdleExec]
    /\ \E S \in {{}, KeyIdx} : store = [c \in Containers |-> S]
    /\ sink = [n \in Names |-> <<>>]
    /\ log = {}
    /\ dirty = [id \in Ids |-> TRUE]
    /\ pubs = [n \in Names |-> 0]
    /\ cycles = 0
    /\ nChanges = 0

(***************************************************************************)
(* createObjectUrl, createLocationSpec and the batch refresh() builds.     *)
(* blobServiceClient.url is the account URL as the client normalises it:   *)
(* the origin followed by the path "/".                                    *)
(***************************************************************************)
ServiceUrl == <<AccountOrigin, "/">>

createObjectUrl(id, key) == ServiceUrl \o ContainerName(id) \o <<"/">> \o key

createLocationSpec(id, key) ==
    [type |-> "url", target |-> createObjectUrl(id, key), presence |-> "required"]

\* locationSpecToLocationEntity: the Location entity of a location spec.
LocationEntity(location) ==
    [kind |-> "Location", type |-> location.type, target |-> location.target,
     presence |-> location.presence]

EntitiesForeignKey(id, keys) ==
    [i \in 1..Len(keys) |->
        [locationKey |-> "azureBlobStorage-provider",
         entity |-> LocationEntity(createLocationSpec(id, keys[i]))]]

Entities(id, keys) ==
    [i \in 1..Len(keys) |->
        [locationKey |-> ProviderName(id),
         entity |-> LocationEntity(createLocationSpec(id, keys[i]))]]

RefreshMutationDelta(id, keys) ==
    [type |-> "delta", added |-> Entities(id, keys), removed |-> <<>>]

RefreshMutation(id, keys) == [type |-> "full", entities |-> Entities(id, keys)]

\* The catalog's applyMutation on the entities it holds for one provider.
ApplyMutation(held, m) ==
    IF m.type = "full" THEN m.entities
    ELSE SelectSeq(held, LAMBDA h : \A j \in 1..Len(m.removed) : m.removed[j] # h)
         \o m.added

\* The names of the objects of a container, in listing order.
Listing(c) == [i \in 1..Len(SeqOfSet(store[c])) |-> KeyOrder[SeqOfSet(store[c])[i]]]


(***************************************************************************)
(* The backend's listBlobsFlat: one page of at most PageSize objects after *)
(* the continuation marker, and whether more objects follow the page.      *)
(***************************************************************************)
After(c, marker) == {k \in store[c] : k > marker}

Min(a, b) == IF a <= b THEN a ELSE b

Page(c, marker) ==
    LET rest == SeqOfSet(After(c, marker))
    IN SubSeq(rest, 1, Min(PageSize, Len(rest)))

HasMore(c, marker) == Cardinality(After(c, marker)) > PageSize

(***************************************************************************)
(* connect(connection).  With an accountKey the credential is built in     *)
(* place; otherwise connect awaits credentialsProvider.getCredentials,     *)
(* which may fail.  scheduleFn() hands the task to the task runner.        *)
(***************************************************************************)
Register(id) == tasks' = tasks \cup {[id |-> TaskId(id), src |-> id]}

ConnectBegin(id) ==
    /\ cpc[id] = "new"
    /\ connection' = [connection EXCEPT ![id] = ProviderName(id)]
    /\ IF hasKey
       THEN /\ client' = [client EXCEPT ![id] = TRUE]
            /\ cpc' = [cpc EXCEPT ![id] = "done"]
            /\ Register(id)
       ELSE /\ cpc' = [cpc EXCEPT ![id] = "creds"]
            /\ UNCHANGED <<client, tasks>>
    /\ UNCHANGED <<hasKey, fnRes, x, store, sink, log, dirty, pubs,
                   cycles, nChanges>>
    /\ UNCHANGED <<rvars, fx>>

ConnectCredOk(id) ==
    /\ cpc[id] = "creds"
    /\ client' = [client EXCEPT ![id] = TRUE]
    /\ cpc' = [cpc EXCEPT ![id] = "done"]
    /\ Register(id)
    /\ UNCHANGED <<hasKey, connection, fnRes, x, store, sink, log, dirty, pubs,
                   cycles, nChanges>>
    /\ UNCHANGED <<rvars, fx>>

\* getCredentials() rejects: the await in connect() throws, and connect()
\* rejects before the client is built and before scheduleFn() is called.
ConnectCredFailRegisters(id) ==
    /\ cpc[id] = "creds"
    /\ cpc' = [cpc EXCEPT ![id] = "failed"]
    /\ Register(id)
    /\ UNCHANGED <<hasKey, connection, client, fnRes, x, store, sink, log,
                   dirty, pubs, cycles, nChanges>>
    /\ UNCHANGED <<rvars, fx>>

ConnectCredFail(id) ==
    /\ cpc[id] = "creds"
    /\ cpc' = [cpc EXCEPT ![id] = "failed"]
    /\ UNCHANGED <<hasKey, connection, client, tasks, fnRes, x, store, sink, log,
                   dirty, pubs, cycles, nChanges>>
    /\ UNCHANGED <<rvars, fx>>

(***************************************************************************)
(* The end of an execution.  A task's fn catches what refresh() throws and *)
(* writes it to the logger; a direct caller of refresh() gets the error.   *)
(***************************************************************************)
TaskFnSettleRethrow(kind) ==
    IF kind = "ok" THEN [settled |-> "resolved", logged |-> FALSE]
    ELSE [settled |-> "rejected", logged |-> FALSE]

TaskFnSettle(kind) ==
    IF kind = "ok" THEN [settled |-> "resolved", logged |-> FALSE]
    ELSE [settled |-> "resolved", logged |-> TRUE]

Ended(e, id, kind) ==
    [IdleExec EXCEPT !.src = id, !.out = kind, !.calls = x[e].calls,
                     !.lists = x[e].lists, !.listFailed = x[e].listFailed]

Finish(e, id, kind, rec) ==
    /\ x' = [x EXCEPT ![e] = rec]
    /\ IF e \in TaskIds
       THEN /\ fnRes' = [fnRes EXCEPT ![e] = TaskFnSettle(kind).settled]
            /\ log' = IF TaskFnSettle(kind).logged
                      THEN log \cup {[target |-> ProviderName(id), taskId |-> e,
                                      kind |-> kind]}
                      ELSE log
       ELSE UNCHANGED <<fnRes, log>>

(***************************************************************************)
(* refresh(), up to its first suspension: the connection check, then       *)
(* listAllBlobKeys() up to the request for the first page.                 *)
(***************************************************************************)
Started(e, id) ==
    [src |-> id, pc |-> "list", keys |-> <<>>, marker |-> 0, more |-> TRUE,
     fresh |-> TRUE, calls |-> 0, lists |-> 1, mut |-> NoMutation,
     unbound |-> FALSE, listFailed |-> FALSE, out |-> "none"]

NotConnectedNoCheck(id) == FALSE

NotConnected(id) == connection[id] = "none"

Begin(e, id) ==
    /\ cycles < MaxCycles
    /\ cycles' = cycles + 1
    /\ LET unbound == connection[id] = "none"
       IN IF NotConnected(id)
          THEN Finish(e, id, "NotInitialized",
                      [IdleExec EXCEPT !.src = id, !.out = "NotInitialized",
                                       !.unbound = unbound])
          ELSE IF ~client[id]
          THEN Finish(e, id, "TypeError",
                      [IdleExec EXCEPT !.src = id, !.out = "TypeError",
                                       !.unbound = unbound])
          ELSE /\ x' = [x EXCEPT ![e] = [Started(e, id) EXCEPT !.unbound = unbound]]
               /\ UNCHANGED <<fnRes, log>>
    /\ UNCHANGED <<hasKey, connection, client, cpc, tasks, store, sink, dirty, pubs,
                   nChanges>>

\* The scheduler starts fn of a registered task: never while an execution of
\* the same task id is running, and not after fn has failed.
CanRun(t) == x[t.id].pc = "idle" /\ fnRes[t.id] # "rejected"

Trigger(t) ==
    /\ t \in tasks
    /\ CanRun(t)
    /\ Begin(t.id, t.src)
    /\ UNCHANGED <<rvars, fx>>

\* Any caller invokes the public refresh() itself.
DirectRefresh(id) ==
    /\ x[DirectId(id)].pc = "idle"
    /\ Begin(DirectId(id), id)
    /\ UNCHANGED <<rvars, fx>>


(***************************************************************************)
(* listAllBlobKeys(): the for-await loop over listBlobsFlat().  Each page  *)
(* is one backend call; a page's blobs are pushed in order; the loop ends  *)
(* when the backend reports no further page.  refresh() then maps the keys *)
(* and calls applyMutation once.                                           *)
(***************************************************************************)
NamesOf(page) == [i \in 1..Len(page) |-> KeyOrder[page[i]]]

PushNamed(keys, names) == keys \o SelectSeq(names, LAMBDA n : n # <<>>)

LoopDoneFirstPage(more) == TRUE

LoopDone(more) == ~more

ListPage(e) ==
    /\ x[e].pc = "list"
    /\ LET id == x[e].src
           c == ContainerName(id)
           page == Page(c, x[e].marker)
           more == HasMore(c, x[e].marker)
           keys == PushNamed(x[e].keys, NamesOf(page))
           marker == IF page = <<>> THEN x[e].marker ELSE page[Len(page)]
       IN x' = [x EXCEPT ![e] =
                  IF LoopDone(more)
                  THEN [@ EXCEPT !.pc = "apply", !.keys = keys, !.marker = marker,
                                 !.more = more, !.calls = @ + 1,
                                 !.mut = RefreshMutation(id, keys)]
                  ELSE [@ EXCEPT !.keys = keys, !.marker = marker, !.more = more,
                                 !.lists = @ + 1]]
    /\ UNCHANGED <<hasKey, connection, client, cpc, tasks, fnRes, store, sink, log,
                   dirty, pubs, cycles, nChanges>>
    /\ UNCHANGED <<rvars, fx>>

\* A page request fails: the loop throws, refresh() throws.
OnListErrorPublish(e) ==
    [x[e] EXCEPT !.pc = "apply", !.calls = @ + 1, !.listFailed = TRUE,
                 !.mut = RefreshMutation(x[e].src, x[e].keys)]

OnListErrorRetry(e) == [Started(e, x[e].src) EXCEPT !.listFailed = TRUE]

OnListError(e) == [Ended(e, x[e].src, "ListError") EXCEPT !.listFailed = TRUE]

ListFail(e) ==
    /\ x[e].pc = "list"
    /\ IF OnListError(e).pc = "idle"
       THEN Finish(e, x[e].src, OnListError(e).out, OnListError(e))
       ELSE /\ x' = [x EXCEPT ![e] = OnListError(e)]
            /\ UNCHANGED <<fnRes, log>>
    /\ UNCHANGED <<hasKey, connection, client, cpc, tasks, store, sink, dirty, pubs,
                   cycles, nChanges>>
    /\ UNCHANGED <<rvars, fx>>

\* The catalog applies the mutation and applyMutation returns.
ApplyOk(e) ==
    /\ x[e].pc = "apply"
    /\ LET id == x[e].src
           n == connection[id]
       IN /\ sink' = [sink EXCEPT ![n] = ApplyMutation(@, x[e].mut)]
          /\ pubs' = [pubs EXCEPT ![n] = @ + 1]
          /\ dirty' = [dirty EXCEPT ![id] = ~x[e].fresh]
          /\ Finish(e, id, "ok", Ended(e, id, "ok"))
    /\ UNCHANGED <<hasKey, connection, client, cpc, tasks, store, cycles, nChanges>>
    /\ UNCHANGED <<rvars, fx>>

\* applyMutation fails: nothing is applied, refresh() throws.
ApplyFail(e) ==
    /\ x[e].pc = "apply"
    /\ Finish(e, x[e].src, "ApplyError", Ended(e, x[e].src, "ApplyError"))
    /\ UNCHANGED <<hasKey, connection, client, cpc, tasks, store, sink, dirty, pubs,
                   cycles, nChanges>>
    /\ UNCHANGED <<rvars, fx>>

(***************************************************************************)
(* Another client of the storage account uploads or deletes an object.     *)
(***************************************************************************)
StoreChange(c, k) ==
    /\ nChanges < MaxChanges
    /\ nChanges' = nChanges + 1
    /\ store' = [store EXCEPT ![c] = IF k \in @ THEN @ \ {k} ELSE @ \cup {k}]
    /\ dirty' = [id \in Ids |-> IF ContainerName(id) = c THEN TRUE ELSE dirty[id]]
    /\ x' = [e \in ExecIds |->
               IF x[e].pc # "idle" /\ ContainerName(x[e].src) = c
               THEN [x[e] EXCEPT !.fresh = FALSE] ELSE x[e]]
    /\ UNCHANGED <<hasKey, connection, client, cpc, tasks, fnRes, sink, log, pubs,
                   cycles>>
    /\ UNCHANGED <<rvars, fx>>

NextProvider ==
    \/ \E id \in Ids : ConnectBegin(id)
    \/ \E id \in Ids : ConnectCredOk(id)
    \/ \E id \in Ids : ConnectCredFail(id)
    \/ \E t \in tasks : Trigger(t)
    \/ \E id \in Ids : DirectRefresh(id)
    \/ \E e \in ExecIds : ListPage(e)
    \/ \E e \in ExecIds : ListFail(e)
    \/ \E e \in ExecIds : ApplyOk(e)
    \/ \E e \in ExecIds : ApplyFail(e)
    \/ \E c \in Containers, k \in KeyIdx : StoreChange(c, k)


(***************************************************************************)
(* The URL reader.                                                         *)
(*                                                                         *)
(* parseUrl: new URL(url).pathname is what follows the origin; it is split *)
(* on "/", the empty segments are dropped, the first segment is the        *)
(* container and the others, joined by "/", the path.                      *)
(***************************************************************************)
Pathname(url) == IF Len(url) <= 1 THEN <<"/">> ELSE Tail(url)

RECURSIVE SplitSlash(_)
SplitSlash(s) ==
    IF s = <<>> THEN << <<>> >>
    ELSE LET r == SplitSlash(Tail(s))
         IN IF Head(s) = "/" THEN << <<>> >> \o r
            ELSE << <<Head(s)>> \o Head(r) >> \o Tail(r)

FilterBooleanKeep(segs) == segs

FilterBoolean(segs) == SelectSeq(segs, LAMBDA g : g # <<>>)

RECURSIVE JoinSlash(_)
JoinSlash(segs) ==
    IF segs = <<>> THEN <<>>
    ELSE IF Len(segs) = 1 THEN segs[1]
    ELSE segs[1] \o <<"/">> \o JoinSlash(Tail(segs))

PathSegments(url) == FilterBoolean(SplitSlash(Pathname(url)))

parseUrlValidAny(url) == TRUE

parseUrlValid(url) == Len(PathSegments(url)) >= 2

parseUrl(url) ==
    [container |-> PathSegments(url)[1], path |-> JoinSlash(Tail(PathSegments(url)))]

(***************************************************************************)
(* path/posix relative(from, to): both are resolved against the same       *)
(* working directory, the common leading segments are dropped, and one     *)
(* ".." is written for every remaining segment of from.                    *)
(***************************************************************************)
RECURSIVE CommonLen(_, _)
CommonLen(a, b) ==
    IF a = <<>> \/ b = <<>> \/ Head(a) # Head(b) THEN 0
    ELSE 1 + CommonLen(Tail(a), Tail(b))

relative(from, to) ==
    LET f == FilterBoolean(SplitSlash(from))
        t == FilterBoolean(SplitSlash(to))
        n == CommonLen(f, t)
    IN JoinSlash([i \in 1..(Len(f) - n) |-> <<".", ".">>] \o SubSeq(t, n + 1, Len(t)))

IsPrefix(p, s) == Len(p) <= Len(s) /\ SubSeq(s, 1, Len(p)) = p

(***************************************************************************)
(* Errors.  The storage client rejects with a RestError that carries the   *)
(* HTTP status in statusCode; the field "metadata" stands for $metadata.   *)
(***************************************************************************)
RestError(status) == [name |-> "RestError", statusCode |-> status]

AbortError == [name |-> "AbortError"]

CredentialError == [name |-> "CredentialUnavailableError"]

InvalidUrlError == [name |-> "Error", message |-> "Invalid Azure Blob Storage URL format"]

StreamError == [name |-> "ForwardedError", message |-> "Unable to read stream",
                cause |-> [name |-> "Error", message |-> "stream"]]

IsNotModified(e) == "metadata" \in DOMAIN e /\ e.metadata.httpStatusCode = 304

CatchReadUrlNoCause(e) ==
    [name |-> "ForwardedError",
     message |-> "Could not retrieve file from Azure Blob Storage"]

\* The catch block of readUrl.
CatchReadUrl(e) ==
    IF IsNotModified(e) THEN [name |-> "NotModifiedError"]
    ELSE [name |-> "ForwardedError",
          message |-> "Could not retrieve file from Azure Blob Storage", cause |-> e]

\* The catch block of readTree.
CatchReadTree(e) ==
    [name |-> "ForwardedError",
     message |-> "Could not retrieve file tree from Azure Blob Storage", cause |-> e]

Rejected(err) == [status |-> "rejected", error |-> err]

Resolved(v) == [status |-> "resolved", value |-> v]

Pending == [status |-> "pending"]

ReadContainer == <<"c">>

Url(path) == <<AccountOrigin>> \o path

ReadUrls == {Url(<<"/", "c", "/", "a">>), Url(<<"/", "c", "/", "a", "/", "b">>),
             Url(<<"/", "c">>)}

KeyIndex(name) == {k \in KeyIdx : KeyOrder[k] = name}

\* No error was thrown.
NoError == [name |-> "none"]

\* An error is thrown inside the try block of the call r.
Threw(r, e) == [r EXCEPT !.thrown = e]

NoCache == [url |-> <<>>, etag |-> 0, lastModifiedAt |-> 0]

IdleUrl == [pc |-> "idle", url |-> <<>>, etag |-> 0, lastModifiedAfter |-> 0,
            signal |-> "none", listeners |-> 0, controller |-> "idle",
            request |-> [type |-> "none"], ver |-> 0, chunks |-> <<>>,
            got304 |-> FALSE, cancelledAt |-> "none", thrown |-> NoError,
            streamFailed |-> FALSE, credCalls |-> 0, requests |-> 0,
            result |-> Pending]

IdleTree == [pc |-> "idle", url |-> <<>>, signal |-> "none", listeners |-> 0,
             controller |-> "idle", prefix |-> <<>>, container |-> <<>>,
             marker |-> 0, more |-> TRUE, queue |-> <<>>, blob |-> 0,
             lastModified |-> 0, request |-> [type |-> "none"], ver |-> 0,
             chunks |-> <<>>, responses |-> <<>>, factoryCalls |-> 0,
             opened |-> 0, openNow |-> 0, cancelledAt |-> "none",
             openedAfterCancel |-> 0, thrown |-> NoError, result |-> Pending]

InitReader ==
    /\ ru = IdleUrl
    /\ rt = IdleTree
    /\ blobVer = [k \in KeyIdx |-> 1]
    /\ cache = NoCache
    /\ reads = 0



(***************************************************************************)
(* The backend's answer to a download request.  A condition the request    *)
(* carries says "not modified" when the ETag equals ifNoneMatch, or when   *)
(* the object was not modified after ifModifiedSince; which of two         *)
(* disagreeing conditions governs is the backend's choice.                 *)
(***************************************************************************)
Verdicts(conditions, ver) ==
    {IF (f = "ifNoneMatch" /\ conditions[f] = ver)
        \/ (f = "ifModifiedSince" /\ ver <= conditions[f])
     THEN "notModified" ELSE "modified" : f \in DOMAIN conditions}

May304(request, ver) == "notModified" \in Verdicts(request.conditions, ver)

May200(request, ver) == Verdicts(request.conditions, ver) # {"notModified"}

Exists(request) ==
    /\ request.container \in Containers
    /\ \E k \in store[request.container] : KeyOrder[k] = request.key

KeyOf(request) == CHOOSE k \in KeyIdx : KeyOrder[k] = request.key

\* What a download request can fail with, other than not-modified.
DownloadErrors(request, controller) ==
    {RestError(500)}
    \cup (IF Exists(request) THEN {} ELSE {RestError(404)})
    \cup (IF request.abortSignal = "controller" /\ controller = "aborted"
          THEN {AbortError} ELSE {})

\* What a download stream can fail with.
StreamErrors(request, controller) ==
    {StreamError}
    \cup (IF request.abortSignal = "controller" /\ controller = "aborted"
          THEN {[StreamError EXCEPT !.cause = AbortError]} ELSE {})

ChunkOf(request, ver, n) == <<request.key, ver, n>>

(***************************************************************************)
(* createContainerClient(containerName): the reader builds a               *)
(* BlobServiceClient of its own for the call and returns its container     *)
(* client; clients is what the providers hold (this.blobServiceClient)     *)
(* once it has returned.                                                   *)
(***************************************************************************)
createContainerClientShared(clients) == [id \in Ids |-> TRUE]

createContainerClient(clients) == clients

(***************************************************************************)
(* readUrl(url, options).                                                  *)
(***************************************************************************)
ConditionsEtagFirst(etag, lastModifiedAfter) ==
    [f \in (IF etag # 0 THEN {"ifNoneMatch"}
            ELSE IF lastModifiedAfter # 0 THEN {"ifModifiedSince"} ELSE {}) |->
        IF f = "ifNoneMatch" THEN etag ELSE lastModifiedAfter]

\* getBlobOptions.conditions: a condition is set only for an option given.
Conditions(etag, lastModifiedAfter) ==
    [f \in (IF etag # 0 THEN {"ifNoneMatch"} ELSE {})
           \cup (IF lastModifiedAfter # 0 THEN {"ifModifiedSince"} ELSE {}) |->
        IF f = "ifNoneMatch" THEN etag ELSE lastModifiedAfter]

\* The request blobClient.download(0, undefined, getBlobOptions) sends.
UrlDownload(r) ==
    [type |-> "download", container |-> parseUrl(r.url).container,
     key |-> parseUrl(r.url).path,
     conditions |-> Conditions(r.etag, r.lastModifiedAfter),
     abortSignal |-> "none"]

\* readUrl settles: its locals are gone (the history fields stay).
UrlDone(r, result) ==
    [IdleUrl EXCEPT !.pc = "done", !.url = r.url, !.etag = r.etag,
                    !.lastModifiedAfter = r.lastModifiedAfter, !.signal = r.signal,
                    !.controller = r.controller, !.got304 = r.got304,
                    !.cancelledAt = r.cancelledAt, !.thrown = r.thrown,
                    !.streamFailed = r.streamFailed, !.credCalls = r.credCalls,
                    !.requests = r.requests, !.result = result]

\* The catch block of readUrl has the error e.
UrlFail(r, e) == UrlDone(r, Rejected(CatchReadUrl(e)))

\* The stream's 'error' handler rejects, and the rejection is caught.
OnStreamErrorResolve(r, e) ==
    UrlDone(r, Resolved([content |-> r.chunks, etag |-> r.ver,
                         lastModifiedAt |-> r.ver]))

OnStreamError(r, e) == UrlFail(r, e)

RU_Call(u, et, lm, sg) ==
    /\ ru.pc \in {"idle", "done"}
    /\ reads < MaxReads
    /\ reads' = reads + 1
    /\ et \in {0} \cup (IF cache.url = u THEN {cache.etag} ELSE {})
    /\ lm \in {0} \cup (IF cache.url = u THEN {cache.lastModifiedAt} ELSE {})
    /\ ru' = IF parseUrlValid(u)
             THEN [IdleUrl EXCEPT !.pc = "creds", !.url = u, !.etag = et,
                                  !.lastModifiedAfter = lm, !.signal = sg,
                                  !.credCalls = IF hasKey THEN 0 ELSE 1]
             ELSE UrlFail(Threw([IdleUrl EXCEPT !.url = u, !.etag = et,
                                                !.lastModifiedAfter = lm,
                                                !.signal = sg],
                                InvalidUrlError),
                          InvalidUrlError)
    /\ UNCHANGED <<rt, blobVer, cache, pvars, fx>>

\* createContainerClient resolved: the abort listener is added and the
\* download request is sent.
RU_CredOk ==
    /\ ru.pc = "creds"
    /\ ru' = [ru EXCEPT !.pc = "download",
                        !.listeners = IF ru.signal = "none" THEN 0 ELSE 1,
                        !.request = UrlDownload(ru), !.requests = @ + 1]
    /\ client' = createContainerClient(client)
    /\ UNCHANGED <<rt, blobVer, cache, reads, pvarsButClient, fx>>

\* credsManager.getCredentials rejected (it is not asked with an accountKey).
RU_CredFail ==
    /\ ru.pc = "creds"
    /\ ~hasKey
    /\ ru' = UrlFail(Threw(ru, CredentialError), CredentialError)
    /\ UNCHANGED <<rt, blobVer, cache, reads, pvars, fx>>

RU_DownloadOk ==
    /\ ru.pc = "download"
    /\ Exists(ru.request)
    /\ May200(ru.request, blobVer[KeyOf(ru.request)])
    /\ ru' = [ru EXCEPT !.pc = "stream", !.ver = blobVer[KeyOf(ru.request)]]
    /\ UNCHANGED <<rt, blobVer, cache, reads, pvars, fx>>

\* The backend answers 304: the download rejects with a RestError.
RU_Download304 ==
    /\ ru.pc = "download"
    /\ Exists(ru.request)
    /\ May304(ru.request, blobVer[KeyOf(ru.request)])
    /\ ru' = UrlFail(Threw([ru EXCEPT !.got304 = TRUE], RestError(304)),
                      RestError(304))
    /\ UNCHANGED <<rt, blobVer, cache, reads, pvars, fx>>

RU_DownloadErr ==
    /\ ru.pc = "download"
    /\ \E err \in DownloadErrors(ru.request, ru.controller) :
          ru' = UrlFail(Threw(ru, err), err)
    /\ UNCHANGED <<rt, blobVer, cache, reads, pvars, fx>>

\* retrieveAzureBlobData: a 'data' event.
RU_Chunk ==
    /\ ru.pc = "stream"
    /\ Len(ru.chunks) < NumChunks
    /\ ru' = [ru EXCEPT !.chunks = Append(@, ChunkOf(ru.request, ru.ver, Len(@) + 1))]
    /\ UNCHANGED <<rt, blobVer, cache, reads, pvars, fx>>

\* retrieveAzureBlobData: the 'end' event; readUrl returns the response.
RU_StreamEnd ==
    /\ ru.pc = "stream"
    /\ Len(ru.chunks) = NumChunks
    /\ ru' = UrlDone(ru, Resolved([content |-> ru.chunks, etag |-> ru.ver,
                                    lastModifiedAt |-> ru.ver]))
    /\ cache' = [url |-> ru.url, etag |-> ru.ver, lastModifiedAt |-> ru.ver]
    /\ UNCHANGED <<rt, blobVer, reads, pvars, fx>>

\* retrieveAzureBlobData: an 'error' event before the end.
RU_StreamErr ==
    /\ ru.pc = "stream"
    /\ \E err \in StreamErrors(ru.request, ru.controller) :
          ru' = OnStreamError(Threw([ru EXCEPT !.streamFailed = TRUE], err), err)
    /\ UNCHANGED <<rt, blobVer, cache, reads, pvars, fx>>

\* The caller's cancelSignal fires: the listeners added so far abort the
\* call's AbortController.
RU_Abort ==
    /\ ru.signal = "armed"
    /\ ru.pc \in {"creds", "download", "stream"}
    /\ ru' = [ru EXCEPT !.signal = "aborted", !.cancelledAt = ru.pc,
                        !.controller = IF ru.listeners > 0 THEN "aborted" ELSE @]
    /\ UNCHANGED <<rt, blobVer, cache, reads, pvars, fx>>

\* Another client overwrites an object.
BlobModify(k) ==
    /\ nChanges < MaxChanges
    /\ nChanges' = nChanges + 1
    /\ blobVer' = [blobVer EXCEPT ![k] = @ + 1]
    /\ UNCHANGED <<ru, rt, cache, reads, hasKey, connection, client, cpc, tasks,
                   fnRes, x, store, sink, log, dirty, pubs, cycles, fx>>

(***************************************************************************)
(* readTree(url, options).  listBlobsFlat({prefix}) is read page by page   *)
(* by the for-await loop; the loop body downloads one blob and reads its   *)
(* stream to the end before the next blob is taken.                        *)
(***************************************************************************)
Matching(container, prefix, marker) ==
    IF container \in Containers
    THEN {k \in store[container] : k > marker /\ IsPrefix(prefix, KeyOrder[k])}
    ELSE {}

TreePage(container, prefix, marker) ==
    LET rest == SeqOfSet(Matching(container, prefix, marker))
    IN SubSeq(rest, 1, Min(PageSize, Len(rest)))

TreeHasMore(container, prefix, marker) ==
    Cardinality(Matching(container, prefix, marker)) > PageSize

\* The request blobClient.download() sends.
TreeDownload(r, k) ==
    [type |-> "download", container |-> r.container, key |-> KeyOrder[k],
     conditions |-> Conditions(0, 0), abortSignal |-> "none"]

\* The loop body up to the download request for the blob at the head of the
\* page: one more abort listener, one more download opened.
OpenBlob(r, queue) ==
    [r EXCEPT !.pc = "download", !.blob = Head(queue).k,
              !.lastModified = Head(queue).lastModified,
              !.queue = Tail(queue),
              !.listeners = IF r.signal = "none" THEN @ ELSE @ + 1,
              !.request = TreeDownload(r, Head(queue).k),
              !.chunks = <<>>,
              !.opened = @ + 1,
              !.openNow = @ + 1,
              !.openedAfterCancel = IF r.signal = "aborted" THEN @ + 1 ELSE @]

\* treeResponseFactory.fromReadableArray(responses).
FromReadableArray(responses) == [files |-> responses]

\* readTree settles: its locals are gone (the history fields stay).
TreeSettled(r, result) ==
    [IdleTree EXCEPT !.pc = "done", !.url = r.url, !.signal = r.signal,
                     !.controller = r.controller, !.prefix = r.prefix,
                     !.container = r.container, !.factoryCalls = r.factoryCalls,
                     !.opened = r.opened, !.cancelledAt = r.cancelledAt,
                     !.openedAfterCancel = r.openedAfterCancel,
                     !.thrown = r.thrown, !.result = result]

\* The loop is over: the tree of the responses is returned.
TreeDone(r) ==
    TreeSettled([r EXCEPT !.factoryCalls = @ + 1],
                Resolved(FromReadableArray(r.responses)))

\* The catch block of readTree has the error err.
TreeFailPartial(r, err) == TreeDone(r)

TreeFail(r, err) == TreeSettled(r, Rejected(CatchReadTree(err)))

RT_Call(u, sg) ==
    /\ rt.pc \in {"idle", "done"}
    /\ reads < MaxReads
    /\ reads' = reads + 1
    /\ rt' = IF parseUrlValid(u)
             THEN [IdleTree EXCEPT !.pc = "creds", !.url = u, !.signal = sg,
                                   !.container = parseUrl(u).container,
                                   !.prefix = parseUrl(u).path]
             ELSE TreeFail(Threw([IdleTree EXCEPT !.url = u, !.signal = sg],
                                 InvalidUrlError),
                           InvalidUrlError)
    /\ UNCHANGED <<ru, blobVer, cache, pvars, fx>>

\* createContainerClient resolved: the loop asks for the first page.
RT_CredOk ==
    /\ rt.pc = "creds"
    /\ rt' = [rt EXCEPT !.pc = "list"]
    /\ client' = createContainerClient(client)
    /\ UNCHANGED <<ru, blobVer, cache, reads, pvarsButClient, fx>>

RT_CredFail ==
    /\ rt.pc = "creds"
    /\ ~hasKey
    /\ rt' = TreeFail(Threw(rt, CredentialError), CredentialError)
    /\ UNCHANGED <<ru, blobVer, cache, reads, pvars, fx>>

\* A page of the listing arrives.
RT_ListPage ==
    /\ rt.pc = "list"
    /\ LET page == TreePage(rt.container, rt.prefix, rt.marker)
           more == TreeHasMore(rt.container, rt.prefix, rt.marker)
           queue == [i \in 1..Len(page) |->
                        [k |-> page[i], lastModified |-> blobVer[page[i]]]]
           r == [rt EXCEPT !.more = more,
                           !.marker = IF page = <<>> THEN @ ELSE page[Len(page)]]
       IN rt' = IF queue # <<>> THEN OpenBlob(r, queue)
                ELSE IF more THEN r
                ELSE TreeDone(r)
    /\ UNCHANGED <<ru, blobVer, cache, reads, pvars, fx>>

RT_ListFail ==
    /\ rt.pc = "list"
    /\ rt' = TreeFail(Threw(rt, RestError(500)), RestError(500))
    /\ UNCHANGED <<ru, blobVer, cache, reads, pvars, fx>>

RT_DownloadOk ==
    /\ rt.pc = "download"
    /\ Exists(rt.request)
    /\ rt' = [rt EXCEPT !.pc = "stream", !.ver = blobVer[rt.blob]]
    /\ UNCHANGED <<ru, blobVer, cache, reads, pvars, fx>>

RT_DownloadErr ==
    /\ rt.pc = "download"
    /\ \E err \in DownloadErrors(rt.request, rt.controller) :
          rt' = TreeFail(Threw(rt, err), err)
    /\ UNCHANGED <<ru, blobVer, cache, reads, pvars, fx>>

RT_Chunk ==
    /\ rt.pc = "stream"
    /\ Len(rt.chunks) < NumChunks
    /\ rt' = [rt EXCEPT !.chunks = Append(@, ChunkOf(rt.request, rt.ver, Len(@) + 1))]
    /\ UNCHANGED <<ru, blobVer, cache, reads, pvars, fx>>

\* The promise of retrieveAzureBlobData resolves on the stream's 'end'
\* event, which follows the last chunk.
StreamAtEndAny(chunks) == TRUE

StreamAtEnd(chunks) == Len(chunks) = NumChunks

\* The stream ended: the entry is pushed, and the loop goes on with the next
\* blob of the page, the next page, or the end.  A download stays open until
\* its stream has delivered its last chunk.
RT_StreamEnd ==
    /\ rt.pc = "stream"
    /\ StreamAtEnd(rt.chunks)
    /\ LET r == [rt EXCEPT !.responses =
                    Append(@, [data |-> rt.chunks,
                               path |-> relative(rt.prefix, KeyOrder[rt.blob]),
                               lastModifiedAt |-> rt.lastModified]),
                           !.openNow = IF Len(rt.chunks) = NumChunks
                                       THEN @ - 1 ELSE @]
       IN rt' = IF r.queue # <<>> THEN OpenBlob(r, r.queue)
                ELSE IF r.more THEN [r EXCEPT !.pc = "list"]
                ELSE TreeDone(r)
    /\ UNCHANGED <<ru, blobVer, cache, reads, pvars, fx>>

RT_StreamErr ==
    /\ rt.pc = "stream"
    /\ \E err \in StreamErrors(rt.request, rt.controller) :
          rt' = TreeFail(Threw(rt, err), err)
    /\ UNCHANGED <<ru, blobVer, cache, reads, pvars, fx>>

\* The caller's cancelSignal fires during the tree read.
RT_Abort ==
    /\ rt.signal = "armed"
    /\ rt.pc \in {"creds", "list", "download", "stream"}
    /\ rt' = [rt EXCEPT !.signal = "aborted", !.cancelledAt = rt.pc,
                        !.controller = IF rt.listeners > 0 THEN "aborted" ELSE @]
    /\ UNCHANGED <<ru, blobVer, cache, reads, pvars, fx>>

NextReader ==
    \/ \E u \in ReadUrls, et \in {0, cache.etag}, lm \in {0, cache.lastModifiedAt},
          sg \in {"none", "armed"} : RU_Call(u, et, lm, sg)
    \/ RU_CredOk
    \/ RU_CredFail
    \/ RU_DownloadOk
    \/ RU_Download304
    \/ RU_DownloadErr
    \/ RU_Chunk
    \/ RU_StreamEnd
    \/ RU_StreamErr
    \/ RU_Abort
    \/ \E u \in ReadUrls, sg \in {"none", "armed"} : RT_Call(u, sg)
    \/ RT_CredOk
    \/ RT_CredFail
    \/ RT_ListPage
    \/ RT_ListFail
    \/ RT_DownloadOk
    \/ RT_DownloadErr
    \/ RT_Chunk
    \/ RT_StreamEnd
    \/ RT_StreamErr
    \/ RT_Abort
    \/ \E k \in KeyIdx : BlobModify(k)

(***************************************************************************)
(* The pure functions, applied to inputs drawn from bounded sets.          *)
(*                                                                         *)
(* The URLs are the account origin followed by a path that is empty or     *)
(* starts with "/"; the paths and the keys are written with letters and    *)
(* "/", which new URL() leaves as they are in pathname.  The functions     *)
(* keep no state.                                                          *)
(***************************************************************************)
Alphabet == {"/", "a", "b"}

SeqsUpTo(S, n) == UNION {[1..k -> S] : k \in 0..n}

FnUrls == {Url(q) : q \in {r \in SeqsUpTo(Alphabet, MaxPathLen) : r = <<>> \/ r[1] = "/"}}

\* Object keys: every one has a letter.
FnKeys == {k \in SeqsUpTo(Alphabet, MaxKeyLen) : \E i \in 1..Len(k) : k[i] # "/"}

IdleFn == [op |-> "none"]

InitFn == fx = IdleFn

\* parseUrl(url): what it returns, or the error it throws.
ParseResult(url) ==
    IF parseUrlValid(url)
    THEN [status |-> "returned", value |-> parseUrl(url)]
    ELSE [status |-> "threw", error |-> InvalidUrlError]

ParseApply(url) ==
    /\ fx' = [op |-> "parseUrl", url |-> url, out |-> ParseResult(url)]
    /\ UNCHANGED <<pvars, rvars>>

\* createLocationSpec(key).target of the provider id, handed to parseUrl.
LocateApply(id, key) ==
    /\ fx' = [op |-> "createObjectUrl", id |-> id, key |-> key,
              target |-> createLocationSpec(id, key).target,
              out |-> ParseResult(createLocationSpec(id, key).target)]
    /\ UNCHANGED <<pvars, rvars>>

\* readTree(url) meets the key in its listing: listBlobsFlat({prefix: path})
\* lists the keys that start with path, and the entry's path is
\* relative(path, blob.name).
TreePathApply(url, key) ==
    /\ parseUrlValid(url)
    /\ IsPrefix(parseUrl(url).path, key)
    /\ fx' = [op |-> "relative", url |-> url, prefix |-> parseUrl(url).path,
              key |-> key, out |-> relative(parseUrl(url).path, key)]
    /\ UNCHANGED <<pvars, rvars>>

(***************************************************************************)
(* readAzureBlobStorageIntegrationConfig(config).  A string the config     *)
(* does not give is "undefined"; "  " is a value of blanks, which trim()   *)
(* turns into the empty string; the empty string and undefined are falsy.  *)
(***************************************************************************)
Undefined == "undefined"

Trim(v) == IF v = "  " THEN "" ELSE v

Truthy(v) == v # Undefined /\ v # ""

DefaultHost == "blob.core.windows.net"

isValidHost(host) == host \in {DefaultHost, "blob.core.usgovcloudapi.net"}

ConfigInputs ==
    [host : {Undefined, "blob.core.usgovcloudapi.net", "not a host"},
     accountKey : {Undefined, "  ", "key"},
     sasToken : {Undefined, "  ", "sas"},
     connectionString : {Undefined, "cs"},
     hasAad : BOOLEAN]

\* The aadCredential the reader builds when the config has one; without
\* one it is undefined, written as the record NoAad.
NoAad == [undefined |-> TRUE]

AadCredential(cfg) ==
    IF cfg.hasAad
    THEN [clientId |-> "client", tenantId |-> "tenant", clientSecret |-> "secret"]
    ELSE NoAad

KeyAndSas(accountKey, sasToken) == Truthy(accountKey) /\ Truthy(sasToken)

AadConflictKeyOnly(aadCredential, accountKey, sasToken) ==
    aadCredential # NoAad /\ Truthy(accountKey)

AadConflict(aadCredential, accountKey, sasToken) ==
    aadCredential # NoAad /\ (Truthy(accountKey) \/ Truthy(sasToken))

readAzureBlobStorageIntegrationConfig(cfg) ==
    LET host == IF cfg.host = Undefined THEN DefaultHost ELSE cfg.host
        accountKey == Trim(cfg.accountKey)
        sasToken == Trim(cfg.sasToken)
        connectionString == Trim(cfg.connectionString)
        aadCredential == AadCredential(cfg)
    IN IF ~isValidHost(host)
       THEN [status |-> "threw", error |-> "not a valid host"]
       ELSE IF KeyAndSas(accountKey, sasToken)
       THEN [status |-> "threw",
             error |-> "Both account key and SAS token cannot be used simultaneously."]
       ELSE IF AadConflict(aadCredential, accountKey, sasToken)
       THEN [status |-> "threw",
             error |-> "Cannot use both Azure AD credentials and account keys/SAS tokens for the same account."]
       ELSE [status |-> "returned",
             value |-> [host |-> host, accountKey |-> accountKey,
                        sasToken |-> sasToken,
                        connectionString |-> connectionString,
                        aadCredential |-> aadCredential]]

ConfigApply(cfg) ==
    /\ fx' = [op |-> "readConfig", cfg |-> cfg,
              out |-> readAzureBlobStorageIntegrationConfig(cfg)]
    /\ UNCHANGED <<pvars, rvars>>

\* One application per behaviour.
NextFn ==
    \/ fx = IdleFn /\ \E url \in FnUrls : ParseApply(url)
    \/ fx = IdleFn /\ \E id \in Ids, key \in FnKeys : LocateApply(id, key)
    \/ fx = IdleFn /\ \E url \in FnUrls, key \in FnKeys : TreePathApply(url, key)
    \/ fx = IdleFn /\ \E cfg \in ConfigInputs : ConfigApply(cfg)

(***************************************************************************)
(* Specifications: Spec is the provider with its scheduler, catalog and    *)
(* container; SpecRead is the reader with its callers and the objects.     *)
(***************************************************************************)
Init == InitProvider /\ InitReader /\ InitFn

Next == NextProvider

Spec == Init /\ [][Next]_vars

(***************************************************************************)
(* The provider where the pending call of every scheduled execution        *)
(* returns or fails: the backend answers the page request of               *)
(* listBlobsFlat() or rejects it, and the sink's applyMutation() resolves  *)
(* or rejects.  Nothing is assumed about which of the two happens, about   *)
(* when the scheduler starts a task, or about direct callers of refresh(). *)
(***************************************************************************)
CallSettles(e) == ListPage(e) \/ ListFail(e) \/ ApplyOk(e) \/ ApplyFail(e)

SpecLive == Init /\ [][Next]_vars /\ \A e \in TaskIds : WF_vars(CallSettles(e))

NextRead == NextReader

SpecRead == Init /\ [][NextRead]_vars

SpecFn == Init /\ [][NextFn]_vars

\* readUrl alone, with its callers and the objects.
NextReadUrl ==
    \/ \E u \in ReadUrls, et \in {0, cache.etag}, lm \in {0, cache.lastModifiedAt},
          sg \in {"none", "armed"} : RU_Call(u, et, lm, sg)
    \/ RU_CredOk
    \/ RU_CredFail
    \/ RU_DownloadOk
    \/ RU_Download304
    \/ RU_DownloadErr
    \/ RU_Chunk
    \/ RU_StreamEnd
    \/ RU_StreamErr
    \/ RU_Abort
    \/ \E k \in KeyIdx : BlobModify(k)

SpecReadUrl == Init /\ [][NextReadUrl]_vars

\* readTree alone, with its callers and the objects.
NextReadTree ==
    \/ \E u \in ReadUrls, sg \in {"none", "armed"} : RT_Call(u, sg)
    \/ RT_CredOk
    \/ RT_CredFail
    \/ RT_ListPage
    \/ RT_ListFail
    \/ RT_DownloadOk
    \/ RT_DownloadErr
    \/ RT_Chunk
    \/ RT_StreamEnd
    \/ RT_StreamErr
    \/ RT_Abort
    \/ \E k \in KeyIdx : BlobModify(k)

SpecReadTree == Init /\ [][NextReadTree]_vars

\* The reader with callers that pass no cancel signal.
NextReadNoSignal ==
    \/ \E u \in ReadUrls, et \in {0, cache.etag}, lm \in {0, cache.lastModifiedAt} :
          RU_Call(u, et, lm, "none")
    \/ RU_CredOk
    \/ RU_CredFail
    \/ RU_DownloadOk
    \/ RU_Download304
    \/ RU_DownloadErr
    \/ RU_Chunk
    \/ RU_StreamEnd
    \/ RU_StreamErr
    \/ \E u \in ReadUrls : RT_Call(u, "none")
    \/ RT_CredOk
    \/ RT_CredFail
    \/ RT_ListPage
    \/ RT_ListFail
    \/ RT_DownloadOk
    \/ RT_DownloadErr
    \/ RT_Chunk
    \/ RT_StreamEnd
    \/ RT_StreamErr
    \/ \E k \in KeyIdx : BlobModify(k)

SpecReadNoSignal == Init /\ [][NextReadNoSignal]_vars

\* The provider and the reader side by side: refresh executions and read
\* calls in any interleaving.  The reads are first reads: they carry no
\* condition, and the backend has no not-modified answer to give.
NextMixed ==
    \/ \E id \in Ids : ConnectBegin(id)
    \/ \E id \in Ids : ConnectCredOk(id)
    \/ \E id \in Ids : ConnectCredFail(id)
    \/ \E t \in tasks : cycles < MixCycles /\ Trigger(t)
    \/ \E id \in Ids : cycles < MixCycles /\ DirectRefresh(id)
    \/ \E e \in ExecIds : ListPage(e)
    \/ \E e \in ExecIds : ListFail(e)
    \/ \E e \in ExecIds : ApplyOk(e)
    \/ \E e \in ExecIds : ApplyFail(e)
    \/ \E c \in Containers, k \in KeyIdx : StoreChange(c, k)
    \/ \E u \in ReadUrls, sg \in {"none", "armed"} :
          reads < MixReads /\ RU_Call(u, 0, 0, sg)
    \/ RU_CredOk
    \/ RU_CredFail
    \/ RU_DownloadOk
    \/ RU_DownloadErr
    \/ RU_Chunk
    \/ RU_StreamEnd
    \/ RU_StreamErr
    \/ RU_Abort
    \/ \E u \in ReadUrls, sg \in {"none", "armed"} :
          reads < MixReads /\ RT_Call(u, sg)
    \/ RT_CredOk
    \/ RT_CredFail
    \/ RT_ListPage
    \/ RT_ListFail
    \/ RT_DownloadOk
    \/ RT_DownloadErr
    \/ RT_Chunk
    \/ RT_StreamEnd
    \/ RT_StreamErr
    \/ RT_Abort
    \/ \E k \in KeyIdx : BlobModify(k)

SpecMixed == Init /\ [][NextMixed]_vars

(***************************************************************************)
(* Properties of the provider.                                             *)
(***************************************************************************)
\* The location descriptors of the objects a container lists now, written out.
ExpectedState(id) ==
    LET names == Listing(ContainerName(id))
    IN [i \in 1..Len(names) |->
          [locationKey |-> "azureBlobStorage-provider:" \o id,
           entity |-> [kind |-> "Location", type |-> "url",
                       target |-> <<AccountOrigin, "/">> \o ContainerName(id)
                                  \o <<"/">> \o names[i],
                       presence |-> "required"]]]

InFlight(id) == {e \in ExecIds : x[e].pc # "idle" /\ x[e].src = id}

HadListFailure(id) ==
    \E l \in log : l.target = "azureBlobStorage-provider:" \o id /\ l.kind = "ListError"

\* C1: after a successful refresh() of a source whose container was not
\* modified since that refresh began listing, the sink holds for the source's
\* key exactly the location descriptors of the objects the container lists,
\* one per object and in listing order; as long as the container stays
\* unmodified, further refreshes leave that state as it is.
C1_FullReplace ==
    \A id \in Ids :
        ~dirty[id] => sink["azureBlobStorage-provider:" \o id] = ExpectedState(id)

\* A second batch of a source was applied on a container nobody modified.
C1_Witness ==
    \E id \in Ids :
        /\ ~dirty[id]
        /\ nChanges = 0
        /\ pubs[ProviderName(id)] >= 2
        /\ Len(sink[ProviderName(id)]) = NumKeys

\* C2: an execution in which a page request failed makes no applyMutation
\* call and ends with the listing error; the step in which the request fails
\* changes no sink state; and a refresh that succeeds after such a failure
\* publishes the container's listing as usual.
C2_Inv ==
    /\ \A e \in ExecIds :
          x[e].listFailed =>
              x[e].calls = 0 /\ x[e].pc = "idle" /\ x[e].out = "ListError"
    /\ \A e \in ExecIds :
          (x[e].out = "ok" /\ HadListFailure(x[e].src) /\ ~dirty[x[e].src]) =>
              sink["azureBlobStorage-provider:" \o x[e].src] = ExpectedState(x[e].src)

C2_Step ==
    \A e \in ExecIds :
        (x[e].pc = "list" /\ x'[e].listFailed) => (sink' = sink /\ pubs' = pubs)

C2_ListFailureContained == []C2_Inv /\ [][C2_Step]_vars

\* A scheduled refresh published the listing after an earlier one had failed
\* to list.
C2_Witness ==
    \E id \in Ids :
        /\ HadListFailure(id)
        /\ x[TaskId(id)].out = "ok"
        /\ ~dirty[id]
        /\ pubs[ProviderName(id)] = 1
        /\ sink[ProviderName(id)] # <<>>

\* C3: fn of a refresh task never settles as rejected; every execution of
\* it that ended with an error of refresh() left an error entry in the log;
\* and the scheduler can start a registered task again whenever no execution
\* of it is running.
C3_ErrorsContained ==
    /\ \A t \in TaskIds : fnRes[t] # "rejected"
    /\ \A t \in TaskIds :
          (x[t].pc = "idle" /\ x[t].out \notin {"none", "ok"}) =>
              \E l \in log : l.taskId = t /\ l.kind = x[t].out
                             /\ l.target = "azureBlobStorage-provider:" \o x[t].src
    /\ \A t \in tasks : x[t.id].pc = "idle" => CanRun(t)

\* After the failure of one cycle was logged, a later cycle of the same task
\* has listed and is publishing.
C3_Witness ==
    \E l \in log :
        /\ l.kind \in {"ListError", "ApplyError"}
        /\ x[l.taskId].pc = "apply"

\* C4: an execution calls applyMutation at most once, never before the
\* backend has reported the last page of its listing, and always with a
\* mutation of type 'full' holding the keys of the whole listing.
C4_OneFullMutation ==
    \A e \in ExecIds :
        /\ x[e].calls <= 1
        /\ x[e].pc = "list" => x[e].calls = 0
        /\ x[e].calls = 1 => ~x[e].more
        /\ x[e].pc = "apply" =>
              /\ x[e].calls = 1
              /\ x[e].mut.type = "full"
              /\ Len(x[e].mut.entities) = Len(x[e].keys)

\* An execution is publishing the keys of a listing of more than one page.
C4_Witness ==
    \E e \in ExecIds :
        x[e].pc = "apply" /\ x[e].lists >= 2 /\ Len(x[e].mut.entities) = NumKeys

\* C5: a refresh() that begins while no connection is bound ends at once
\* with NotInitialized, having made no page request and no applyMutation call.
C5_NotInitialized ==
    \A e \in ExecIds :
        x[e].unbound =>
            /\ x[e].pc = "idle"
            /\ x[e].out = "NotInitialized"
            /\ x[e].lists = 0
            /\ x[e].calls = 0

\* refresh() was called on a provider before connect().
C5_Witness ==
    \E id \in Ids :
        /\ x[DirectId(id)].unbound
        /\ x[DirectId(id)].out = "NotInitialized"
        /\ cpc[id] = "new"

\* C6: no source ever has two executions of its refresh task in flight, and
\* the scheduler never holds back a registered task of a source that has no
\* execution in flight, whatever the other sources' tasks are doing.
C6_RunIsolation ==
    /\ \A id \in Ids : Cardinality(InFlight(id) \cap TaskIds) <= 1
    /\ \A t \in tasks : (InFlight(t.src) \cap TaskIds = {}) => CanRun(t)

\* The refresh tasks of two sources are in flight at the same time.
C6_Witness ==
    /\ x[TaskId("a")].pc # "idle" /\ x[TaskId("a")].src = "a"
    /\ x[TaskId("b")].pc # "idle" /\ x[TaskId("b")].src = "b"

\* C7: every registered task has the id "azureBlobStorage-provider:<id>:refresh"
\* of its source's id; every entity of a mutation an execution hands to the
\* sink, and every entity the sink holds under a source's key, carries
\* locationKey "azureBlobStorage-provider:<id>" of that source.
C7_Identity ==
    /\ \A t \in tasks : t.id = "azureBlobStorage-provider:" \o t.src \o ":refresh"
    /\ \A e \in ExecIds :
          x[e].mut.type = "full" =>
              \A i \in 1..Len(x[e].mut.entities) :
                  x[e].mut.entities[i].locationKey
                      = "azureBlobStorage-provider:" \o x[e].src
    /\ \A id \in Ids :
          LET held == sink["azureBlobStorage-provider:" \o id]
          IN \A i \in 1..Len(held) :
                held[i].locationKey = "azureBlobStorage-provider:" \o id

\* Both sources have a registered task and a published, non-empty batch.
C7_Witness ==
    /\ Cardinality(tasks) = 2
    /\ \A id \in Ids : sink[ProviderName(id)] # <<>>


(***************************************************************************)
(* Properties of the reader.                                               *)
(***************************************************************************)
\* C8: a readUrl call that passes as etag the etag the previous readUrl of
\* the same URL returned, on an object nobody modified, and that the backend
\* answers with "not modified", fails with NotModified.
C8_NotModified ==
    (/\ ru.pc = "done"
     /\ ru.got304
     /\ nChanges = 0
     /\ ru.etag # 0 /\ ru.etag = cache.etag /\ ru.url = cache.url)
    => ru.result = Rejected([name |-> "NotModifiedError"])

\* C9: a readUrl call whose cancelSignal fired while its download was in
\* flight (requested, or streaming) does not return a result: it fails.
C9_CancelFails ==
    (ru.pc = "done" /\ ru.cancelledAt \in {"download", "stream"})
    => ru.result.status = "rejected"

\* C10: a readTree call whose cancelSignal fired during the tree walk, while
\* a download of the walk was open (requested, or streaming), does not return
\* a tree: it fails.
C10_TreeCancelFails ==
    (rt.pc = "done" /\ rt.cancelledAt \in {"download", "stream"})
    => rt.result.status = "rejected"

(***************************************************************************)
(* Properties of the pure functions, under SpecFn.                         *)
(***************************************************************************)
\* The positions of a written path where a non-empty segment starts.
SegmentStarts(w) == {i \in 1..Len(w) : w[i] # "/" /\ (i = 1 \/ w[i - 1] = "/")}

\* A written path without its empty segments: every "/" that ends the path
\* or stands before another "/" is left out.
Squeezed(w) ==
    LET idx == SeqOfSet({i \in 1..Len(w) :
                            ~(w[i] = "/" /\ (i = Len(w) \/ w[i + 1] = "/"))})
    IN [j \in 1..Len(idx) |-> w[idx[j]]]

HasSlash(q) == \E i \in 1..Len(q) : q[i] = "/"

\* C13: parseUrl(url) fails with the invalid-URL error exactly when the URL
\* path has fewer than two non-empty segments; otherwise the container is the
\* first non-empty segment and the path is the other non-empty segments
\* joined by single "/".
C13_Parse ==
    fx.op = "parseUrl" =>
        LET w == Tail(fx.url)
        IN /\ (fx.out.status = "threw") <=> (Cardinality(SegmentStarts(w)) < 2)
           /\ fx.out.status = "threw" => fx.out.error = InvalidUrlError
           /\ fx.out.status = "returned" =>
                 LET c == fx.out.value.container
                     q == fx.out.value.path
                 IN /\ c # <<>> /\ ~HasSlash(c)
                    /\ q # <<>> /\ q[1] # "/" /\ Squeezed(q) = q
                    /\ <<"/">> \o c \o <<"/">> \o q = Squeezed(w)

\* parseUrl returned for a URL written with an empty segment and an object
\* path of two segments.
C13_Witness ==
    /\ fx.op = "parseUrl"
    /\ fx.out.status = "returned"
    /\ Squeezed(Tail(fx.url)) # Tail(fx.url)
    /\ HasSlash(fx.out.value.path)

\* C14: the target URL built for a key of a provider's container is the
\* endpoint, the container and the key with one "/" between them, and
\* parseUrl takes it back to exactly that container and that key.
C14_RoundTrip ==
    fx.op = "createObjectUrl" =>
        /\ fx.target = <<AccountOrigin, "/">> \o ContainerName(fx.id) \o <<"/">> \o fx.key
        /\ fx.out.status = "returned"
        /\ fx.out.value = [container |-> ContainerName(fx.id), path |-> fx.key]

\* C11: the relativePath readTree gives a listed key (one that starts with
\* the prefix of the URL) is a trailing part of the key and does not begin
\* with a parent reference.
C11_RelativePath ==
    fx.op = "relative" =>
        /\ ~IsPrefix(<<".", ".">>, fx.out)
        /\ Len(fx.out) <= Len(fx.key)
        /\ SubSeq(fx.key, Len(fx.key) - Len(fx.out) + 1, Len(fx.key)) = fx.out

\* A credential string the config gives with a value that is not blank.
Given(v) == v # "undefined" /\ v # "  "

\* The credential kinds a loaded integration config carries.
KindsSet(value) ==
    {k \in {"accountKey", "sasToken"} : value[k] # "undefined" /\ value[k] # ""}
    \cup (IF "clientId" \in DOMAIN value.aadCredential THEN {"aadCredential"} ELSE {})

\* C19: loading is rejected when accountKey and sasToken are both given, and
\* when aadCredential is given together with accountKey or sasToken; a config
\* that loads carries at most one of the three credential kinds.
C19_CredentialExclusive ==
    fx.op = "readConfig" =>
        /\ (Given(fx.cfg.accountKey) /\ Given(fx.cfg.sasToken))
              => fx.out.status = "threw"
        /\ (fx.cfg.hasAad /\ (Given(fx.cfg.accountKey) \/ Given(fx.cfg.sasToken)))
              => fx.out.status = "threw"
        /\ fx.out.status = "returned" => Cardinality(KindsSet(fx.out.value)) <= 1

\* A config with a valid host, an aadCredential and a sasToken (and no
\* accountKey) was rejected.
C19_Witness ==
    /\ fx.op = "readConfig"
    /\ fx.cfg.host = "undefined"
    /\ fx.cfg.hasAad /\ Given(fx.cfg.sasToken) /\ ~Given(fx.cfg.accountKey)
    /\ fx.out.status = "threw"

(***************************************************************************)
(* Properties of readTree, under SpecReadTree.                             *)
(***************************************************************************)
\* C12: a readTree call in which the listing, a download or a stream read
\* failed ends rejected with the tree-read error whose cause is that
\* failure, and the tree response factory was not invoked.
C12_TreeFailure ==
    (rt.pc = "done" /\ rt.thrown # NoError) =>
        /\ rt.result.status = "rejected"
        /\ rt.result.error.name = "ForwardedError"
        /\ rt.result.error.message = "Could not retrieve file tree from Azure Blob Storage"
        /\ rt.result.error.cause = rt.thrown
        /\ rt.factoryCalls = 0

\* A tree read failed at its second blob, after the first entry was fetched.
C12_Witness ==
    /\ rt.pc = "done"
    /\ rt.thrown \in {RestError(500), StreamError}
    /\ rt.opened >= 2
    /\ rt.result.status = "rejected"

(***************************************************************************)
(* Properties of readUrl, under SpecReadUrl.                               *)
(***************************************************************************)
\* C15: a readUrl call for a URL with fewer than two non-empty path segments
\* ends rejected, the invalid-URL error being the cause it carries, and the
\* call asked for no credential and sent no request.
C15_InvalidUrlFirst ==
    (ru.pc = "done" /\ Cardinality(SegmentStarts(Tail(ru.url))) < 2) =>
        /\ ru.result.status = "rejected"
        /\ "cause" \in DOMAIN ru.result.error
        /\ ru.result.error.cause = InvalidUrlError
        /\ ru.credCalls = 0
        /\ ru.requests = 0

\* readUrl ended for a URL that names a container only, with an integration
\* that has no account key (a valid URL would ask for a credential).
C15_Witness ==
    /\ ru.pc = "done"
    /\ ru.url = Url(<<"/", "c">>)
    /\ ~hasKey
    /\ ru.result.status = "rejected"

\* C16: a readUrl call in which an error other than the backend's
\* not-modified answer and an abort was thrown ends rejected with the
\* read error whose cause is that error.
C16_ReadFailedCause ==
    (ru.pc = "done" /\ ru.thrown # NoError
        /\ ru.thrown # RestError(304) /\ ru.thrown # AbortError) =>
        /\ ru.result.status = "rejected"
        /\ ru.result.error.name = "ForwardedError"
        /\ ru.result.error.message = "Could not retrieve file from Azure Blob Storage"
        /\ "cause" \in DOMAIN ru.result.error
        /\ ru.result.error.cause = ru.thrown

\* readUrl failed on a download the backend refused.
C16_Witness ==
    /\ ru.pc = "done"
    /\ ru.thrown = RestError(500)
    /\ ru.requests = 1
    /\ ru.result.status = "rejected"

\* C18: a readUrl call whose stream reported an error ends rejected, and the
\* content of a returned response is every chunk of the object's version,
\* in order.
C18_WholeContent ==
    ru.pc = "done" =>
        /\ ru.streamFailed => ru.result.status = "rejected"
        /\ ru.result.status = "resolved" =>
              ru.result.value.content =
                  [n \in 1..NumChunks |->
                      <<parseUrl(ru.url).path, ru.result.value.etag, n>>]

\* The stream of a readUrl call failed after it had delivered a chunk.
C18_Witness ==
    /\ ru.pc = "done"
    /\ ru.streamFailed
    /\ ru.result.status = "rejected"

(***************************************************************************)
(* Properties of the reader, under SpecReadNoSignal.                       *)
(***************************************************************************)
\* C17: the download request of readUrl carries ifNoneMatch, equal to the
\* etag, exactly when an etag is given, and ifModifiedSince, equal to
\* lastModifiedAfter, exactly when that is given; a download request of
\* readTree carries no condition.
C17_Conditions ==
    /\ ru.request.type = "download" =>
          /\ DOMAIN ru.request.conditions =
                {f \in {"ifNoneMatch"} : ru.etag # 0}
                \cup {f \in {"ifModifiedSince"} : ru.lastModifiedAfter # 0}
          /\ ru.etag # 0 => ru.request.conditions["ifNoneMatch"] = ru.etag
          /\ ru.lastModifiedAfter # 0 =>
                ru.request.conditions["ifModifiedSince"] = ru.lastModifiedAfter
    /\ rt.request.type = "download" => DOMAIN rt.request.conditions = {}

\* readUrl sent a download request with both options given.
C17_Witness ==
    /\ ru.request.type = "download"
    /\ ru.etag # 0 /\ ru.lastModifiedAfter # 0
    /\ DOMAIN ru.request.conditions = {"ifNoneMatch", "ifModifiedSince"}

(***************************************************************************)
(* Property of the reader beside the provider, under SpecMixed.            *)
(***************************************************************************)
\* A step of a readUrl or readTree call.
ReadStep == ru' # ru \/ rt' # rt

\* C20: a step of a readUrl or readTree call, whatever the refresh
\* executions are doing, applies no mutation and leaves the state the
\* catalog holds for every source, the bound connections and the providers'
\* backend clients as they were.
C20_ReadFrame ==
    [][ReadStep =>
          /\ sink' = sink
          /\ pubs' = pubs
          /\ \A e \in ExecIds : x'[e].calls = x[e].calls
          /\ connection' = connection
          /\ client' = client]_vars

\* A readUrl call returned a response while a refresh execution was between
\* its listing and its mutation, the catalog holding nothing yet.
C20_Witness ==
    /\ ru.pc = "done"
    /\ ru.result.status = "resolved"
    /\ \E e \in ExecIds : x[e].pc \in {"list", "apply"}
    /\ \E id \in Ids : connection[id] # "none" /\ client[id]


\* C23: within one readTree call the downloads are strictly sequential: a
\* download is opened only after the stream of the previous one was read to
\* its end, so at most one download of the call is open at any moment, and
\* every entry pushed so far holds the whole stream of its object.
C23_Sequential ==
    /\ rt.openNow <= 1
    /\ rt.pc \in {"download", "stream"} =>
          /\ rt.openNow = 1
          /\ rt.opened = Len(rt.responses) + 1
    /\ \A i \in 1..Len(rt.responses) : Len(rt.responses[i].data) = NumChunks

\* The second download of a readTree call is open and streaming, after the
\* first was read to its end and pushed.
C23_Witness ==
    /\ rt.pc = "stream"
    /\ rt.opened = 2
    /\ rt.openNow = 1
    /\ Len(rt.responses) = 1
    /\ Len(rt.chunks) = 1


\* C22: the refresh task is registered only at the end of connect(), after
\* the sink was bound and the backend client was built: every registered
\* task belongs to a source with both set, no execution started by the
\* scheduler ends on a missing connection or a missing client, and a source
\* whose credential resolution failed inside connect() has no task, has
\* started no scheduled execution, and has published nothing.
C22_RegisteredLast ==
    /\ \A t \in tasks :
          /\ connection[t.src] = ProviderName(t.src)
          /\ client[t.src]
          /\ cpc[t.src] = "done"
    /\ \A id \in Ids :
          /\ ~x[TaskId(id)].unbound
          /\ x[TaskId(id)].out \notin {"NotInitialized", "TypeError"}
          /\ x[TaskId(id)].pc # "idle" => connection[id] # "none" /\ client[id]
    /\ \A id \in Ids :
          cpc[id] = "failed" =>
              /\ \A t \in tasks : t.src # id
              /\ x[TaskId(id)] = IdleExec
              /\ pubs[ProviderName(id)] = 0
              /\ sink[ProviderName(id)] = <<>>
              /\ \A e \in {TaskId(id), DirectId(id)} : x[e].calls = 0

\* Credential resolution failed in connect() of one source, whose refresh()
\* was then called directly and threw; the task of the other source, which
\* connected, has run a cycle to its publication.
C22_Witness ==
    \E id, other \in Ids :
        /\ cpc[id] = "failed"
        /\ x[DirectId(id)].out = "TypeError"
        /\ cpc[other] = "done"
        /\ x[TaskId(other)].out = "ok"
        /\ pubs[ProviderName(other)] = 1


\* C21: if every backend call and every sink call returns or fails, each
\* refresh cycle the scheduler has started ends: fn has settled without
\* throwing, either after the batch was published or after the failure was
\* written to the log, and the scheduler may start the next cycle of the
\* source's task.
CycleEnded(id) ==
    LET t == TaskId(id)
    IN /\ x[t].pc = "idle"
       /\ fnRes[t] = "resolved"
       /\ \/ x[t].out = "ok" /\ x[t].calls = 1
          \/ /\ x[t].out \in {"ListError", "ApplyError"}
             /\ [target |-> ProviderName(id), taskId |-> t, kind |-> x[t].out]
                    \in log
       /\ [id |-> t, src |-> id] \in tasks
       /\ CanRun([id |-> t, src |-> id])

C21_CycleEnds ==
    \A id \in Ids : (x[TaskId(id)].pc # "idle") ~> CycleEnded(id)

\* A cycle of a task failed and was logged, and a later cycle of the same
\* task has ended with its batch published.
C21_Witness ==
    \E id \in Ids :
        /\ CycleEnded(id)
        /\ x[TaskId(id)].out = "ok"
        /\ pubs[ProviderName(id)] = 1
        /\ \E l \in log : l.taskId = TaskId(id)

=============================================================================
